---- MODULE Spec2Model ----
(***************************************************************************)
(* Model of the AutoFare / VeriFace Transit hand-off: the photo intake     *)
(* endpoint, the selfie poll endpoint and the verification orchestrator.   *)
(* Strings are TLA+ strings; startsWith, includes, template literals and   *)
(* base64 are computed on them character by character.                     *)
(***************************************************************************)
EXTENDS Integers, Sequences, FiniteSets, TLC

VARIABLES
    lastReceivedSelfieForPage, \* the Pending Selfie Slot (module-level let)
    pollVariant,               \* which get-latest-selfie GET handler is deployed
    http,                      \* the last HTTP exchange: handler, request, response
    accepted,                  \* history: payload of the last intake answered 200
    polls,                     \* history: polls answered since that intake
    rejects,                   \* history: an intake was refused since that intake
    actionsVariant,            \* which processVerification is deployed
    run,                       \* the last processVerification run: inputs, calls, result
    intakes,                   \* per caller: the intake POST it has in progress
    writer,                    \* history: the caller whose assignment ran last
    page,                      \* the client page: React state, form inputs, video element
    fetches,                   \* polls of the page awaiting their response
    timers,                    \* setTimeout callbacks of the page not yet run
    autoSubmissions            \* history, kept by the specifications that count: timer
                               \* callbacks that submitted the slot's selfie since the
                               \* last intake that succeeded (0, 1, 2 = more)

clientVars == <<page, fetches, timers, autoSubmissions>>

vars == <<lastReceivedSelfieForPage, pollVariant, http, accepted, polls, rejects,
          actionsVariant, run, intakes, writer, page, fetches, timers,
          autoSubmissions>>

intakeVars == <<lastReceivedSelfieForPage, http, accepted, polls, rejects>>

-----------------------------------------------------------------------------
(* Bounds *)

MaxPolls == 3

\* polls of the page that may be awaiting a response at once
MaxInFlight == 1

\* setTimeout callbacks of the page that may be pending at once
MaxTimers == 1

-----------------------------------------------------------------------------
(* JavaScript / JSON values *)

Null == [t |-> "null"]
Undefined == [t |-> "undefined"]
Str(s) == [t |-> "str", s |-> s]
Num(n) == [t |-> "num", n |-> n]
Obj(selfie, cctv) == [t |-> "obj", selfieDataUri |-> selfie, cctvDataUri |-> cctv]
Bool(b) == [t |-> "bool", b |-> b]
File(type, bytes, readable) ==
    [t |-> "file", type |-> type, bytes |-> bytes, readable |-> readable]

\* JavaScript truthiness of the values used here
Truthy(v) ==
    CASE v.t = "null" -> FALSE
      [] v.t = "undefined" -> FALSE
      [] v.t = "str" -> v.s # ""
      [] v.t = "num" -> v.n # 0
      [] v.t = "bool" -> v.b
      [] OTHER -> TRUE

\* String.prototype.startsWith
StartsWith(s, p) == Len(s) >= Len(p) /\ SubSeq(s, 1, Len(p)) = p

\* String.prototype.includes
Includes(s, sub) ==
    \E i \in 1..(Len(s) - Len(sub) + 1) : SubSeq(s, i, i + Len(sub) - 1) = sub

\* Array.prototype.join(' ')
RECURSIVE JoinSpace(_)
JoinSpace(msgs) ==
    IF Len(msgs) = 0 THEN ""
    ELSE IF Len(msgs) = 1 THEN msgs[1]
    ELSE msgs[1] \o " " \o JoinSpace(Tail(msgs))

\* new Error(message)
Error(message) == [isError |-> TRUE, message |-> message]

Base64Alphabet ==
    "ABCDEFGHIJKLMNOPQRSTUVWXYZabcdefghijklmnopqrstuvwxyz0123456789+/"

Base64Char(i) == SubSeq(Base64Alphabet, i + 1, i + 1)

\* Buffer.from(bytes).toString('base64')
RECURSIVE Base64(_)
Base64(b) ==
    IF Len(b) = 0 THEN ""
    ELSE IF Len(b) = 1 THEN
        Base64Char(b[1] \div 4) \o Base64Char((b[1] % 4) * 16) \o "=="
    ELSE IF Len(b) = 2 THEN
        Base64Char(b[1] \div 4) \o Base64Char((b[1] % 4) * 16 + b[2] \div 16)
            \o Base64Char((b[2] % 16) * 4) \o "="
    ELSE
        Base64Char(b[1] \div 4) \o Base64Char((b[1] % 4) * 16 + b[2] \div 16)
            \o Base64Char((b[2] % 16) * 4 + b[3] \div 64) \o Base64Char(b[3] % 64)
            \o Base64(SubSeq(b, 4, Len(b)))

-----------------------------------------------------------------------------
(* zod *)

ImagePrefix == "data:image/"

\* typeof-like name zod prints in "Expected string, received ..."
ZodTypeName(v) ==
    CASE v.t = "null" -> "null"
      [] v.t = "num" -> "number"
      [] v.t = "obj" -> "object"
      [] v.t = "file" -> "object"
      [] OTHER -> v.t

\* z.string() without the startsWith refinement
ZodImageString_noPrefix(v, message) ==
    IF v.t = "undefined" THEN <<"Required">>
    ELSE IF v.t # "str" THEN <<"Expected string, received " \o ZodTypeName(v)>>
    ELSE <<>>

\* z.string().startsWith('data:image/', { message }): the issues of one field
ZodImageString(v, message) ==
    IF v.t = "undefined" THEN <<"Required">>
    ELSE IF v.t # "str" THEN <<"Expected string, received " \o ZodTypeName(v)>>
    ELSE IF ~StartsWith(v.s, ImagePrefix) THEN <<message>>
    ELSE <<>>

\* a flatten() that reports every issue as a form error
FieldErrors_none(selfieIssues, cctvIssues) == [k \in {} |-> <<>>]

\* error.flatten().fieldErrors: only the fields that have issues
FieldErrors(selfieIssues, cctvIssues) ==
    [k \in {f \in {"selfieDataUri", "cctvDataUri"} :
                \/ f = "selfieDataUri" /\ selfieIssues # <<>>
                \/ f = "cctvDataUri" /\ cctvIssues # <<>>}
        |-> IF k = "selfieDataUri" THEN selfieIssues ELSE cctvIssues]

\* Object.values(fieldErrors).flat()
FlatFieldErrors(fieldErrors) ==
    (IF "selfieDataUri" \in DOMAIN fieldErrors THEN fieldErrors["selfieDataUri"] ELSE <<>>)
    \o (IF "cctvDataUri" \in DOMAIN fieldErrors THEN fieldErrors["cctvDataUri"] ELSE <<>>)

-----------------------------------------------------------------------------
(* Photo Intake Endpoint: app/api/receive-photo/route.ts *)

\* ReceivePhotoInputSchema.safeParse(body), with error.flatten()
ReceivePhotoInputSchema(body) ==
    IF body.t # "obj" THEN
        [success |-> FALSE,
         fieldErrors |-> FieldErrors(<<>>, <<>>),
         formErrors |-> <<"Expected object, received " \o ZodTypeName(body)>>]
    ELSE
        LET issues == ZodImageString(body.selfieDataUri,
                                     "Selfie image must be a valid data URI.")
        IN  IF issues # <<>> THEN
                [success |-> FALSE,
                 fieldErrors |-> FieldErrors(issues, <<>>),
                 formErrors |-> <<>>]
            ELSE
                [success |-> TRUE,
                 data |-> [selfieDataUri |-> body.selfieDataUri.s]]

corsHeaders ==
    ("Access-Control-Allow-Origin" :> "*")
    @@ ("Access-Control-Allow-Methods" :> "POST, OPTIONS")
    @@ ("Access-Control-Allow-Headers" :> "Content-Type, Authorization")

\* a NextResponse.json that drops its init argument
NextResponseJson_noInit(body, status, headers) ==
    [status |-> 200, headers |-> [h \in {} |-> ""], body |-> body]

\* NextResponse.json(body, { status, headers })
NextResponseJson(body, status, headers) ==
    [status |-> status, headers |-> headers, body |-> body]

\* request.json(): the parsed body, or the SyntaxError it throws
JsonOk(value) == [ok |-> TRUE, value |-> value]
JsonThrows(message) == [ok |-> FALSE, error |-> Error(message)]

\* an intake that acknowledges without storing
StoreSelfie_keep(slot, selfieDataUri) == slot

\* an intake that stores only into an empty slot
StoreSelfie_firstWins(slot, selfieDataUri) ==
    IF slot = Null THEN Str(selfieDataUri) ELSE slot

\* lastReceivedSelfieForPage = validatedFields.data.selfieDataUri
StoreSelfie(slot, selfieDataUri) == Str(selfieDataUri)

\* POST(request) with the slot before the call; yields the response and the
\* slot after the call
POST(request, slot) ==
    IF request.ok THEN
        LET validatedFields == ReceivePhotoInputSchema(request.value)
        IN  IF ~validatedFields.success THEN
                [response |-> NextResponseJson(
                    [status |-> "error",
                     message |-> "Invalid input. Ensure you are sending a JSON object with 'selfieDataUri' and check your 'Content-Type: application/json' header.",
                     errors |-> validatedFields.fieldErrors],
                    400, corsHeaders),
                 slot |-> slot]
            ELSE
                [response |-> NextResponseJson(
                    [status |-> "success", message |-> "Photo received successfully."],
                    200, corsHeaders),
                 slot |-> StoreSelfie(slot, validatedFields.data.selfieDataUri)]
    ELSE
        LET error == request.error
            thrownMessage == IF error.isError THEN error.message
                             ELSE "An unknown error occurred."
            errorMessage ==
                IF Includes(thrownMessage, "Unexpected token")
                THEN "Failed to parse JSON body. Please ensure the request body is valid JSON and the 'Content-Type' header is set to 'application/json'."
                ELSE thrownMessage
        IN  [response |-> NextResponseJson(
                [status |-> "error", message |-> "Backend Error: " \o errorMessage],
                500, corsHeaders),
             slot |-> slot]

-----------------------------------------------------------------------------
(* Selfie Poll Endpoint: app/api/get-latest-selfie/route.ts, two versions *)

corsHeaders_get ==
    ("Access-Control-Allow-Origin" :> "*")
    @@ ("Access-Control-Allow-Methods" :> "GET, OPTIONS")
    @@ ("Access-Control-Allow-Headers" :> "Content-Type")

\* NextResponse.json(body) without init: status 200, no extra headers
NoHeaders == [h \in {} |-> ""]

\* a GET() that clears the slot once it has read it
GET_clearing(slot) ==
    [response |-> NextResponseJson([selfieDataUri |-> slot], 200, corsHeaders_get),
     slot |-> Null]

\* GET(), the version that reads the slot
GET(slot) ==
    LET selfieToReturn == slot
    IN  [response |-> NextResponseJson([selfieDataUri |-> selfieToReturn],
                                       200, corsHeaders_get),
         slot |-> slot]

\* GET(), the version whose comments discuss making the value consumable
GET_consuming(slot) ==
    IF Truthy(slot) THEN
        LET tempSelfie == slot
        IN  [response |-> NextResponseJson([selfieDataUri |-> tempSelfie],
                                           200, NoHeaders),
             slot |-> slot]
    ELSE
        [response |-> NextResponseJson([selfieDataUri |-> Null], 200, NoHeaders),
         slot |-> slot]

\* new Response(null, { status, headers })
NewResponse(status, headers) == [status |-> status, headers |-> headers, body |-> Null]

\* OPTIONS() of receive-photo
OPTIONS == NewResponse(204, corsHeaders)

\* OPTIONS() of get-latest-selfie, next to the GET that reads the slot
OPTIONS_get == NewResponse(204, corsHeaders_get)

\* OPTIONS() of get-latest-selfie, next to the GET with the consumable comments
OPTIONS_get_consuming ==
    NewResponse(204,
        ("Access-Control-Allow-Origin" :> "*")
        @@ ("Access-Control-Allow-Methods" :> "GET, OPTIONS")
        @@ ("Access-Control-Allow-Headers" :> "Content-Type"))

-----------------------------------------------------------------------------
(* Inputs of the intake endpoint *)

Payloads == {"data:image/png;base64,AAA=", "data:image/jpeg;base64,BBB="}

BadSelfieFields ==
    {Undefined, Null, Num(42), Str(""), Str("not-a-data-uri"),
     Str("data:image"), Str("DATA:IMAGE/png;base64,AAA="),
     Str("data:text/plain;base64,AAA=")}

JsonBodies ==
    {Obj(f, Undefined) : f \in BadSelfieFields \cup {Str(p) : p \in Payloads}}
    \cup {Obj(Str(p), Str("data:image/webp;base64,CCC=")) : p \in Payloads}
    \cup {Null, Num(42), Str("data:image/png;base64,AAA=")}

JsonParseErrors ==
    {"Unexpected token 'o', \"not json\" is not valid JSON",
     "Unexpected end of JSON input",
     "Expected property name or '}' in JSON at position 1"}

Requests ==
    {JsonOk(b) : b \in JsonBodies} \cup {JsonThrows(m) : m \in JsonParseErrors}

NoExchange == [op |-> "none"]

-----------------------------------------------------------------------------
(* Actions of the intake and poll endpoints *)

ReceivePhotoOver(requests) ==
    \E request \in requests :
        LET r == POST(request, lastReceivedSelfieForPage)
            ok == r.response.status = 200
        IN  /\ lastReceivedSelfieForPage' = r.slot
            /\ http' = [op |-> "POST", request |-> request, response |-> r.response]
            /\ accepted' = IF ok /\ request.ok /\ request.value.t = "obj"
                           THEN request.value.selfieDataUri ELSE accepted
            /\ polls' = IF ok THEN 0 ELSE polls
            /\ rejects' = ~ok
            /\ autoSubmissions' = IF ok THEN 0 ELSE autoSubmissions
            /\ UNCHANGED <<pollVariant, actionsVariant, run, intakes, writer,
                           page, fetches, timers>>

ReceivePhoto == ReceivePhotoOver(Requests)

PollPeek ==
    /\ pollVariant = "peek"
    /\ polls < MaxPolls
    /\ LET r == GET(lastReceivedSelfieForPage)
       IN  /\ lastReceivedSelfieForPage' = r.slot
           /\ http' = [op |-> "GET", response |-> r.response]
    /\ polls' = polls + 1
    /\ UNCHANGED <<accepted, rejects, pollVariant, actionsVariant, run, intakes, writer, clientVars>>

PollConsuming ==
    /\ pollVariant = "consume"
    /\ polls < MaxPolls
    /\ LET r == GET_consuming(lastReceivedSelfieForPage)
       IN  /\ lastReceivedSelfieForPage' = r.slot
           /\ http' = [op |-> "GET", response |-> r.response]
    /\ polls' = polls + 1
    /\ UNCHANGED <<accepted, rejects, pollVariant, actionsVariant, run, intakes, writer, clientVars>>

PreflightIntake ==
    /\ http' = [op |-> "OPTIONS", route |-> "receive-photo", response |-> OPTIONS]
    /\ UNCHANGED <<lastReceivedSelfieForPage, accepted, polls, rejects,
                   pollVariant, actionsVariant, run, intakes, writer, clientVars>>

PreflightPoll ==
    /\ http' = [op |-> "OPTIONS", route |-> "get-latest-selfie",
                response |-> IF pollVariant = "peek" THEN OPTIONS_get
                             ELSE OPTIONS_get_consuming]
    /\ UNCHANGED <<lastReceivedSelfieForPage, accepted, polls, rejects,
                   pollVariant, actionsVariant, run, intakes, writer, clientVars>>

NextIntake ==
    ReceivePhoto \/ PollPeek \/ PollConsuming \/ PreflightIntake \/ PreflightPoll

\* the camera frames the video element shows
Frames == {"data:image/webp;base64,F1==", "data:image/webp;base64,F2=="}

\* what <input type="file"> contributes to FormData while no file is chosen
EmptyFile == File("application/octet-stream", <<>>, TRUE)

\* the page after its first render: the useState and useRef initial values,
\* the empty form inputs, a video element without a stream
\* (reader: the file a FileReader is still reading; uploaded: history, the
\* file whose read finished last and has not been replaced as the selfie)
InitialPage ==
    [selfiePreview |-> Null,
     hasCameraPermission |-> Null,
     isPollingSelfie |-> TRUE,
     lastProcessedRemoteSelfieUri |-> Null,
     selfieInput |-> EmptyFile,
     programmaticSelfieDataUri |-> "",
     cctvDataUri |-> "",
     srcObject |-> FALSE,
     videoReady |-> FALSE,
     videoFrame |-> "data:image/webp;base64,F1==",
     reader |-> Null,
     uploaded |-> Null]

NoRun == [state |-> "none"]

Callers == {"a", "b"}

Init ==
    /\ lastReceivedSelfieForPage = Null
    /\ pollVariant \in {"peek", "consume"}
    /\ http = NoExchange
    /\ accepted = Null
    /\ polls = 0
    /\ rejects = FALSE
    /\ actionsVariant \in {"actions", "programmatic"}
    /\ run = NoRun
    /\ intakes = [c \in Callers |-> [state |-> "idle"]]
    /\ writer = "none"
    /\ page = InitialPage
    /\ fetches = <<>>
    /\ timers = <<>>
    /\ autoSubmissions = 0

SpecIntake == Init /\ [][NextIntake]_vars

-----------------------------------------------------------------------------
(* Verification Service Client: ai/flows *)

Throw(error) == [t |-> "throw", error |-> error]
Return(value) == [t |-> "return", value |-> value]

\* the flow that does not test output.summary
generateAlertSummary_emptyAllowed(input, promptOutcome) ==
    IF promptOutcome.t = "throw" THEN Throw(promptOutcome.error)
    ELSE
        LET output == promptOutcome.value
        IN  IF ~Truthy(output) THEN
                Throw(Error("AI failed to generate an alert summary. The response from the AI was empty, malformed, or missing the summary field."))
            ELSE Return([summary |-> IF "summary" \in DOMAIN output
                                     THEN output.summary ELSE ""])

\* generateAlertSummary(input) = generateAlertSummaryFlow(input); promptOutcome
\* is what `await prompt(input)` does: it throws, or returns { output }, the
\* output being null, an object without summary, or an object with one
generateAlertSummary(input, promptOutcome) ==
    IF promptOutcome.t = "throw" THEN Throw(promptOutcome.error)
    ELSE
        LET output == promptOutcome.value
        IN  IF ~Truthy(output) \/ "summary" \notin DOMAIN output
               \/ output.summary = "" THEN
                Throw(Error("AI failed to generate an alert summary. The response from the AI was empty, malformed, or missing the summary field."))
            ELSE Return([summary |-> output.summary])

\* enhanceCctvImage(input) = enhanceCctvImageFlow(input); generateOutcome is
\* what `await ai.generate(...)` does: it throws, or returns { media }
enhanceCctvImage(input, generateOutcome) ==
    IF generateOutcome.t = "throw" THEN Throw(generateOutcome.error)
    ELSE
        LET media == generateOutcome.value
        IN  IF Truthy(media) /\ media.url # "" THEN
                Return([enhancedCctvImageDataUri |-> media.url])
            ELSE
                Throw(Error("Failed to generate enhanced image: No media URL found in AI response."))

-----------------------------------------------------------------------------
(* Verification Orchestrator: app/actions.ts *)

\* the sentinel with a different wording
SUCCESS_SUMMARY_typo == "Verified successfully: The same person is present in both images."

SUCCESS_SUMMARY == "Verified successful: The same person is present in both images."

SelfieMessage == "Selfie must be a valid image data URI."
CctvMessage == "CCTV frame must be a valid image data URI."

\* the schema with plain z.string() fields
VerificationInputSchema_noPrefix(selfieDataUri, cctvDataUri) ==
    LET selfieIssues == ZodImageString_noPrefix(selfieDataUri, SelfieMessage)
        cctvIssues == ZodImageString_noPrefix(cctvDataUri, CctvMessage)
    IN  IF selfieIssues # <<>> \/ cctvIssues # <<>> THEN
            [success |-> FALSE,
             fieldErrors |-> FieldErrors(selfieIssues, cctvIssues)]
        ELSE
            [success |-> TRUE,
             data |-> [selfieDataUri |-> selfieDataUri.s,
                       cctvDataUri |-> cctvDataUri.s]]

\* VerificationInputSchema.safeParse({ selfieDataUri, cctvDataUri })
VerificationInputSchema(selfieDataUri, cctvDataUri) ==
    LET selfieIssues == ZodImageString(selfieDataUri, SelfieMessage)
        cctvIssues == ZodImageString(cctvDataUri, CctvMessage)
    IN  IF selfieIssues # <<>> \/ cctvIssues # <<>> THEN
            [success |-> FALSE,
             fieldErrors |-> FieldErrors(selfieIssues, cctvIssues)]
        ELSE
            [success |-> TRUE,
             data |-> [selfieDataUri |-> selfieDataUri.s,
                       cctvDataUri |-> cctvDataUri.s]]

\* `data:${selfieFile.type};base64,${base64String}`
FileDataUri(selfieFile) ==
    "data:" \o selfieFile.type \o ";base64," \o Base64(selfieFile.bytes)

\* `Invalid input: ${errorMessage || "Validation failed."}`
InvalidInputMessage(fieldErrors) ==
    LET errorMessage == JoinSpace(FlatFieldErrors(fieldErrors))
    IN  "Invalid input: " \o
            (IF errorMessage # "" THEN errorMessage ELSE "Validation failed.")

\* error instanceof Error ? error.message : "An unknown error occurred ..."
AiErrorMessage(error) ==
    IF error.isError THEN error.message
    ELSE "An unknown error occurred during AI processing."

\* a catch block that reports the failure as a failed verification
AiFailure_asFailed(error) ==
    [status |-> "failed",
     message |-> "Failed to get AI insights: " \o AiErrorMessage(error)]

\* a catch block that rethrows: the promise of the run is rejected
AiFailure_rethrow(error) == Throw(error)

\* a catch block that drops the prefix
AiFailure_noPrefix(error) ==
    [status |-> "error", message |-> AiErrorMessage(error)]

\* the catch block around the two external calls
AiFailure(error) ==
    [status |-> "error",
     message |-> "Failed to get AI insights: " \o AiErrorMessage(error)]

\* the result returned when the summary is the sentinel
VerifiedResult ==
    [status |-> "verified", message |-> "Identity verified successfully."]

\* a failed result that carries the generic message as its summary
FailedResult_genericSummary(summary, enhancedImageUri) ==
    [status |-> "failed",
     summary |-> "Identity verification did not confirm a match.",
     enhancedImageUri |-> enhancedImageUri,
     message |-> "Identity verification did not confirm a match."]

\* a failed result without the enhanced image
FailedResult_noEnhanced(summary, enhancedImageUri) ==
    [status |-> "failed",
     summary |-> summary,
     message |-> "Identity verification did not confirm a match."]

\* the result returned after the enhance call
FailedResult(summary, enhancedImageUri) ==
    [status |-> "failed",
     summary |-> summary,
     enhancedImageUri |-> enhancedImageUri,
     message |-> "Identity verification did not confirm a match."]

\* the optional field selfieUsed the later version adds to a result
WithSelfieUsed(result, selfieUsed) == result @@ ("selfieUsed" :> selfieUsed)

\* one external call of a run: the operation, its argument, how it ended
Call(fn, input, outcome) == [fn |-> fn, input |-> input, outcome |-> outcome]

Outcome(result, calls) == [result |-> result, calls |-> calls]

\* the try block: generateAlertSummary, the sentinel comparison, enhanceCctvImage
AiStage(validSelfieDataUri, validCctvDataUri, ai) ==
    LET alertSummaryInput == [selfieDataUri |-> validSelfieDataUri,
                              cctvDataUri |-> validCctvDataUri]
        alertSummaryOutput == generateAlertSummary(alertSummaryInput, ai.prompt)
        summaryCall == Call("generateAlertSummary", alertSummaryInput, alertSummaryOutput)
    IN
    IF alertSummaryOutput.t = "throw" THEN
        Outcome(AiFailure(alertSummaryOutput.error), <<summaryCall>>)
    ELSE IF alertSummaryOutput.value.summary = SUCCESS_SUMMARY THEN
        Outcome(VerifiedResult, <<summaryCall>>)
    ELSE
    LET enhanceCctvImageInput == [cctvImageDataUri |-> validCctvDataUri]
        enhanceCctvImageOutput == enhanceCctvImage(enhanceCctvImageInput, ai.generate)
        enhanceCall == Call("enhanceCctvImage", enhanceCctvImageInput, enhanceCctvImageOutput)
    IN
    IF enhanceCctvImageOutput.t = "throw" THEN
        Outcome(AiFailure(enhanceCctvImageOutput.error), <<summaryCall, enhanceCall>>)
    ELSE
        Outcome(FailedResult(alertSummaryOutput.value.summary,
                             enhanceCctvImageOutput.value.enhancedCctvImageDataUri),
                <<summaryCall, enhanceCall>>)

\* await selfieFile.arrayBuffer() throws: the value is not a File (a text
\* field has no arrayBuffer method) or the file cannot be read
ArrayBufferThrows(selfieFile) ==
    IF selfieFile.t = "file" THEN ~selfieFile.readable ELSE TRUE

\* processVerification(prevState, formData) of src/app/actions.ts; ai holds
\* what the two model round trips do in this run
processVerification(formData, ai) ==
    LET selfieFile == formData.selfie
        cctvDataUriFromForm == formData.cctvDataUri
    IN
    IF ~Truthy(selfieFile) THEN
        Outcome([status |-> "error", message |-> "Selfie image is required."], <<>>)
    ELSE IF ~Truthy(cctvDataUriFromForm) THEN
        Outcome([status |-> "error",
                 message |-> "CCTV frame is required. Please ensure camera is working."],
                <<>>)
    ELSE IF ArrayBufferThrows(selfieFile) THEN
        Outcome([status |-> "error", message |-> "Failed to process selfie image."], <<>>)
    ELSE
    LET selfieDataUri == FileDataUri(selfieFile)
        validatedFields == VerificationInputSchema(Str(selfieDataUri), cctvDataUriFromForm)
    IN
    IF ~validatedFields.success THEN
        Outcome([status |-> "error",
                 message |-> InvalidInputMessage(validatedFields.fieldErrors)], <<>>)
    ELSE
        AiStage(validatedFields.data.selfieDataUri, validatedFields.data.cctvDataUri, ai)

\* processVerification(prevState, formData) of the version that also accepts
\* the selfie as the hidden field programmaticSelfieDataUri
processVerification_programmatic(formData, ai) ==
    LET programmatic == formData.programmaticSelfieDataUri
        cctvDataUriFromForm == formData.cctvDataUri
        selfieFile == formData.selfie
    IN
    IF ~Truthy(programmatic) /\ ~Truthy(selfieFile) THEN
        Outcome([status |-> "error",
                 message |-> "Selfie image is required (either uploaded or provided programmatically)."],
                <<>>)
    ELSE IF ~Truthy(programmatic) /\ ArrayBufferThrows(selfieFile) THEN
        Outcome([status |-> "error",
                 message |-> "Failed to process uploaded selfie image."], <<>>)
    ELSE
    LET selfieDataUri == IF Truthy(programmatic) THEN programmatic.s
                         ELSE FileDataUri(selfieFile)
    IN
    IF ~Truthy(cctvDataUriFromForm) THEN
        Outcome([status |-> "error",
                 message |-> "CCTV frame is required. Please ensure camera is working."],
                <<>>)
    ELSE
    LET validatedFields == VerificationInputSchema(Str(selfieDataUri), cctvDataUriFromForm)
    IN
    IF ~validatedFields.success THEN
        Outcome(WithSelfieUsed(
                    [status |-> "error",
                     message |-> InvalidInputMessage(validatedFields.fieldErrors)],
                    selfieDataUri),
                <<>>)
    ELSE
    LET validSelfieDataUri == validatedFields.data.selfieDataUri
        stage == AiStage(validSelfieDataUri, validatedFields.data.cctvDataUri, ai)
    IN  Outcome(WithSelfieUsed(stage.result, validSelfieDataUri), stage.calls)

-----------------------------------------------------------------------------
(* Inputs of the orchestrator *)

SelfieFiles ==
    {File("image/png", <<137, 80, 78>>, TRUE),
     File("text/plain", <<104, 105>>, TRUE),
     File("application/octet-stream", <<>>, TRUE),
     File("image/jpeg", <<255>>, FALSE)}

CctvFields == {Null, Str("data:image/webp;base64,CCC="), Str("data:,")}

ProgrammaticFields ==
    {Str(""), Str("data:image/png;base64,AAA="), Str("not-a-data-uri")}

FormDatas(variant) ==
    [selfie : SelfieFiles \cup {Null, Str("selfie.png")},
     cctvDataUri : CctvFields,
     programmaticSelfieDataUri :
         IF variant = "programmatic" THEN ProgrammaticFields ELSE {Null}]

ModelOutput(summary) == [t |-> "obj", summary |-> summary]
ModelMedia(url) == [t |-> "obj", url |-> url]

JudgmentSentinel == "Verified successful: The same person is present in both images."

Summaries ==
    {JudgmentSentinel,
     "No matching person found in both images.",
     "Likely the same person."}

PromptOutcomes ==
    {Throw(Error("fetch failed")), Return(Null), Return([t |-> "obj"]),
     Return(ModelOutput(""))}
    \cup {Return(ModelOutput(s)) : s \in Summaries}

GenerateOutcomes ==
    {Throw(Error("503 Service Unavailable")), Return(Null),
     Return(ModelMedia("data:image/png;base64,EEE="))}

AiOutcomes == [prompt : PromptOutcomes, generate : GenerateOutcomes]

-----------------------------------------------------------------------------
(* Action of the orchestrator *)

\* the form action invoked with some formData out of formDatas, the model
\* behaving as some element of ais
SubmitFormOver(formDatas, ais) ==
    \E formData \in formDatas, ai \in ais :
        LET r == IF actionsVariant = "actions"
                 THEN processVerification(formData, ai)
                 ELSE processVerification_programmatic(formData, ai)
        IN  /\ run' = [state |-> "done", formData |-> formData, ai |-> ai,
                       result |-> r.result, calls |-> r.calls]
            /\ UNCHANGED <<lastReceivedSelfieForPage, pollVariant, http, accepted,
                           polls, rejects, actionsVariant, intakes, writer, clientVars>>

SubmitForm == SubmitFormOver(FormDatas(actionsVariant), AiOutcomes)

NextOrchestrator == SubmitForm

SpecOrchestrator == Init /\ [][NextOrchestrator]_vars

Next == NextIntake \/ NextOrchestrator

Spec == Init /\ [][Next]_vars

-----------------------------------------------------------------------------
(* Properties of the intake and poll endpoints *)

\* the last exchange is an intake POST whose body parsed
ParsedIntake(h) == h.op = "POST" /\ h.request.ok

\* ... and whose selfieDataUri is absent, not a string, or lacks the prefix
RefusedSelfie(h) ==
    /\ ParsedIntake(h)
    /\ \/ h.request.value.t # "obj"
       \/ h.request.value.selfieDataUri \in BadSelfieFields

\* C1: an intake POST whose selfieDataUri is absent, not a string, or does not
\* begin with 'data:image/' is answered 400 with status 'error', and the slot
\* holds the same value after the call as before it.
C1_RefusedSelfieKeepsSlot ==
    [][RefusedSelfie(http') =>
           /\ http'.response.status = 400
           /\ http'.response.body.status = "error"
           /\ lastReceivedSelfieForPage' = lastReceivedSelfieForPage]_vars

C1_Witness ==
    /\ RefusedSelfie(http)
    /\ http.request.value.t = "obj"
    /\ http.request.value.selfieDataUri = Str("not-a-data-uri")
    /\ http.response.status = 400
    /\ lastReceivedSelfieForPage = Str("data:image/png;base64,AAA=")

\* C2: with the peek handler deployed, every poll returns exactly the payload
\* of the last intake that succeeded, however many polls and refused intakes
\* came in between.
C2_PeekReturnsAccepted ==
    (pollVariant = "peek" /\ http.op = "GET") =>
        http.response.body.selfieDataUri = accepted

C2_Witness ==
    /\ pollVariant = "peek"
    /\ http.op = "GET"
    /\ polls >= 2
    /\ rejects
    /\ accepted = Str("data:image/jpeg;base64,BBB=")
    /\ http.response.body.selfieDataUri = accepted

\* C3: with the handler whose comments call the value consumable deployed, the
\* first poll after a successful intake returns the payload and the next
\* consecutive poll, with no intake in between, returns null.
C3_SecondConsumingPollIsNull ==
    (pollVariant = "consume" /\ http.op = "GET" /\ accepted # Null /\ ~rejects) =>
        /\ polls = 1 => http.response.body.selfieDataUri = accepted
        /\ polls = 2 => http.response.body.selfieDataUri = Null

\* C10: an intake POST whose body cannot be parsed as JSON is answered 400 with
\* status 'error' and a message asking for valid JSON, and the slot is unchanged.
C10_MalformedBodyIs400 ==
    [][(http'.op = "POST" /\ ~http'.request.ok) =>
           /\ http'.response.status = 400
           /\ http'.response.body.status = "error"
           /\ Includes(http'.response.body.message, "valid JSON")
           /\ lastReceivedSelfieForPage' = lastReceivedSelfieForPage]_vars

-----------------------------------------------------------------------------
(* Properties of the orchestrator *)

RunDone == run.state = "done"

CallsOf(fn) == {i \in 1..Len(run.calls) : run.calls[i].fn = fn}

SummaryReturned(s) ==
    \E i \in CallsOf("generateAlertSummary") :
        run.calls[i].outcome = Return([summary |-> s])

SummaryThrew ==
    \E i \in CallsOf("generateAlertSummary") : run.calls[i].outcome.t = "throw"

EnhanceThrew ==
    \E i \in CallsOf("enhanceCctvImage") : run.calls[i].outcome.t = "throw"

\* the summary is some non-empty string other than the sentinel
SummaryIsMismatch ==
    \E i \in CallsOf("generateAlertSummary") :
        /\ run.calls[i].outcome.t = "return"
        /\ run.calls[i].outcome.value.summary \notin {"", JudgmentSentinel}

\* C4: whenever generateAlertSummary returns exactly the Judgment Sentinel, the
\* result is 'verified' and enhanceCctvImage is not invoked in that run.
C4_SentinelVerifiesWithoutEnhance ==
    (RunDone /\ SummaryReturned(JudgmentSentinel)) =>
        /\ run.result.status = "verified"
        /\ CallsOf("enhanceCctvImage") = {}

C4_Witness ==
    /\ RunDone
    /\ SummaryReturned(JudgmentSentinel)
    /\ run.result.status = "verified"
    /\ Len(run.calls) = 1

\* C5 as stated: whenever generateAlertSummary returns a non-empty string other
\* than the sentinel, the result is 'failed' with that exact string as summary
\* and enhanceCctvImage is invoked exactly once, on the CCTV payload.
C5_MismatchAlwaysFailed ==
    (RunDone /\ SummaryIsMismatch) =>
        /\ run.result.status = "failed"
        /\ SummaryReturned(run.result.summary)
        /\ Cardinality(CallsOf("enhanceCctvImage")) = 1
        /\ \A i \in CallsOf("enhanceCctvImage") :
               run.calls[i].input.cctvImageDataUri = run.formData.cctvDataUri.s

\* C5 amended: on such a summary enhanceCctvImage is invoked exactly once, on
\* the CCTV payload; if that call returns the result is 'failed' with that
\* exact string as summary, and if it throws the result is 'error'.
C5_MismatchEnhancesOnce ==
    (RunDone /\ SummaryIsMismatch) =>
        /\ Cardinality(CallsOf("enhanceCctvImage")) = 1
        /\ \A i \in CallsOf("enhanceCctvImage") :
               run.calls[i].input.cctvImageDataUri = run.formData.cctvDataUri.s
        /\ ~EnhanceThrew =>
               /\ run.result.status = "failed"
               /\ SummaryReturned(run.result.summary)
        /\ EnhanceThrew => run.result.status = "error"

C5_Witness ==
    /\ RunDone
    /\ SummaryReturned("Likely the same person.")
    /\ run.result.status = "failed"
    /\ run.result.summary = "Likely the same person."
    /\ Cardinality(CallsOf("enhanceCctvImage")) = 1

\* C6: if generateAlertSummary throws, the result is 'error' and
\* enhanceCctvImage is never invoked in that run.
C6_SummaryThrowIsError ==
    (RunDone /\ SummaryThrew) =>
        /\ run.result.status = "error"
        /\ CallsOf("enhanceCctvImage") = {}

C6_Witness ==
    /\ RunDone
    /\ SummaryThrew
    /\ run.ai.prompt = Return(Null)
    /\ run.result.status = "error"

\* C7: every result has one of the statuses verified, failed, error, and
\* carries summary and enhancedImageUri if and only if its status is 'failed'.
C7_ResultShape ==
    RunDone =>
        /\ run.result.status \in {"verified", "failed", "error"}
        /\ "summary" \in DOMAIN run.result <=> run.result.status = "failed"
        /\ "enhancedImageUri" \in DOMAIN run.result <=> run.result.status = "failed"

C7_Witness ==
    /\ RunDone
    /\ run.result.status = "failed"
    /\ {"summary", "enhancedImageUri"} \subseteq DOMAIN run.result

\* the selfie value a run validates: the programmatic field when the deployed
\* version reads it and it is non-empty, else the uploaded file as a data URI
RunSelfie ==
    IF actionsVariant = "programmatic" /\ Truthy(run.formData.programmaticSelfieDataUri)
    THEN run.formData.programmaticSelfieDataUri
    ELSE IF run.formData.selfie.t = "file" /\ run.formData.selfie.readable
    THEN Str(FileDataUri(run.formData.selfie))
    ELSE Null

IsImageUri(v) == v.t = "str" /\ StartsWith(v.s, "data:image/")

NamesSelfie(message) == Includes(message, "Selfie") \/ Includes(message, "selfie")
NamesCctv(message) == Includes(message, "CCTV")

\* C8: if the selfie data URI or the captured-frame data URI does not begin
\* with 'data:image/', the result is 'error', its message names a field that
\* failed and no field that passed (every failed field when both values reach
\* the schema), and neither external operation is invoked.
C8_InvalidUriIsNamedError ==
    (RunDone /\ (~IsImageUri(RunSelfie) \/ ~IsImageUri(run.formData.cctvDataUri))) =>
        /\ run.result.status = "error"
        /\ run.calls = <<>>
        /\ NamesSelfie(run.result.message) \/ NamesCctv(run.result.message)
        /\ NamesSelfie(run.result.message) => ~IsImageUri(RunSelfie)
        /\ NamesCctv(run.result.message) => ~IsImageUri(run.formData.cctvDataUri)
        /\ (RunSelfie.t = "str" /\ Truthy(run.formData.cctvDataUri)) =>
               /\ ~IsImageUri(RunSelfie) => NamesSelfie(run.result.message)
               /\ ~IsImageUri(run.formData.cctvDataUri) => NamesCctv(run.result.message)

C8_Witness ==
    /\ RunDone
    /\ RunSelfie.t = "str" /\ ~IsImageUri(RunSelfie)
    /\ run.formData.cctvDataUri = Str("data:,")
    /\ run.result.status = "error"
    /\ NamesSelfie(run.result.message) /\ NamesCctv(run.result.message)

\* C9: if either external call throws, the result is 'error' with message
\* 'Failed to get AI insights: ' followed by the message of the error thrown,
\* and neither operation is invoked more than once in a run.
C9_ThrowIsWrappedNoRetry ==
    RunDone =>
        /\ Cardinality(CallsOf("generateAlertSummary")) <= 1
        /\ Cardinality(CallsOf("enhanceCctvImage")) <= 1
        /\ \A i \in 1..Len(run.calls) :
               run.calls[i].outcome.t = "throw" =>
                   /\ run.result.status = "error"
                   /\ run.result.message =
                          "Failed to get AI insights: " \o run.calls[i].outcome.error.message

C9_Witness ==
    /\ RunDone
    /\ EnhanceThrew
    /\ ~SummaryThrew
    /\ run.result.status = "error"
    /\ run.result.message = "Failed to get AI insights: 503 Service Unavailable"

\* C20: every run of processVerification, whatever the form data and whether
\* each call of the two external operations returns or throws, ends with one
\* VerificationResult (a status out of the three, a message, at most the
\* fields of the type) and never with an exception handed to the caller.
C20_AlwaysOneResultNeverThrows ==
    RunDone =>
        /\ "t" \notin DOMAIN run.result
        /\ {"status", "message"} \subseteq DOMAIN run.result
        /\ DOMAIN run.result \subseteq
               {"status", "message", "summary", "enhancedImageUri", "selfieUsed"}
        /\ run.result.status \in {"verified", "failed", "error"}
        /\ run.result.message \in STRING
        /\ run.formData \in FormDatas(actionsVariant)
        /\ run.ai \in AiOutcomes

C20_Witness ==
    /\ RunDone
    /\ run.formData.selfie = Str("selfie.png")
    /\ run.formData.cctvDataUri = Str("data:image/webp;base64,CCC=")
    /\ run.ai.prompt.t = "throw"
    /\ run.result.status = "error"

-----------------------------------------------------------------------------
(* Further properties of the intake and poll endpoints *)

C13_EveryResponseAllowsAnyOrigin ==
    http.op # "none" =>
        /\ "Access-Control-Allow-Origin" \in DOMAIN http.response.headers
        /\ http.response.headers["Access-Control-Allow-Origin"] = "*"

\* C14: the slot is null at start, so a poll before any successful intake
\* returns null; an intake that passes validation sets the slot to exactly the
\* submitted selfieDataUri and is answered 200 with status 'success'.
C14_EmptyThenStored ==
    /\ accepted = Null =>
           /\ lastReceivedSelfieForPage = Null
           /\ http.op = "GET" => http.response.body.selfieDataUri = Null
    /\ \A p \in Payloads :
           (ParsedIntake(http) /\ http.request.value.t = "obj"
                /\ http.request.value.selfieDataUri = Str(p)) =>
               /\ http.response.status = 200
               /\ http.response.body.status = "success"
               /\ lastReceivedSelfieForPage = Str(p)

C14_Witness ==
    /\ ParsedIntake(http)
    /\ http.request.value = Obj(Str("data:image/jpeg;base64,BBB="), Undefined)
    /\ http.response.status = 200
    /\ lastReceivedSelfieForPage = Str("data:image/jpeg;base64,BBB=")
    /\ rejects = FALSE

-----------------------------------------------------------------------------
(* Two callers of the intake endpoint at once.  POST suspends once, at        *)
(* `await request.json()`; validation, the assignment and the response run    *)
(* without interruption after it.                                             *)

RaceRequests ==
    {JsonOk(Obj(Str(p), Undefined)) : p \in Payloads}
    \cup {JsonOk(Obj(Str("not-a-data-uri"), Undefined)),
          JsonThrows("Unexpected end of JSON input")}

\* POST entered by caller c, suspended at the await
BeginIntake(c) ==
    /\ intakes[c].state \in {"idle", "answered"}
    /\ \E request \in RaceRequests :
           intakes' = [intakes EXCEPT ![c] =
               [state |-> "parsing", request |-> request,
                overlap |-> \E d \in Callers \ {c} : intakes[d].state = "parsing"]]
    /\ UNCHANGED <<lastReceivedSelfieForPage, pollVariant, http, accepted, polls,
                   rejects, actionsVariant, run, writer, clientVars>>

\* the rest of POST for caller c
CompleteIntake(c) ==
    /\ intakes[c].state = "parsing"
    /\ LET request == intakes[c].request
           r == POST(request, lastReceivedSelfieForPage)
           ok == r.response.status = 200
       IN  /\ lastReceivedSelfieForPage' = r.slot
           /\ http' = [op |-> "POST", request |-> request, response |-> r.response]
           /\ accepted' = IF ok THEN request.value.selfieDataUri ELSE accepted
           /\ polls' = IF ok THEN 0 ELSE polls
           /\ rejects' = ~ok
           /\ writer' = IF ok THEN c ELSE writer
           /\ intakes' = [intakes EXCEPT ![c] =
                  [state |-> "answered", request |-> request,
                   overlap |-> intakes[c].overlap, response |-> r.response]]
    /\ UNCHANGED <<pollVariant, actionsVariant, run, clientVars>>

NextRace ==
    \/ \E c \in Callers : BeginIntake(c)
    \/ \E c \in Callers : CompleteIntake(c)
    \/ PollPeek
    \/ PollConsuming

SpecRace == Init /\ [][NextRace]_vars

\* caller c's current request passes validation and has been answered
ValidAnswered(c) ==
    /\ intakes[c].state = "answered"
    /\ intakes[c].request.ok
    /\ intakes[c].request.value.selfieDataUri \in {Str(p) : p \in Payloads}

\* C15: for any interleaving of two intake requests that both pass validation,
\* both are acknowledged with success, the slot then holds in full the payload
\* of the request whose assignment ran last, and a later poll returns that
\* payload, never the other one.
C15_LastWriteWins ==
    /\ \A c \in Callers :
           ValidAnswered(c) =>
               /\ intakes[c].response.status = 200
               /\ intakes[c].response.body.status = "success"
    /\ (\A c \in Callers : ValidAnswered(c)) =>
           /\ writer \in Callers
           /\ lastReceivedSelfieForPage = intakes[writer].request.value.selfieDataUri
           /\ http.op = "GET" =>
                  http.response.body.selfieDataUri
                      = intakes[writer].request.value.selfieDataUri

C15_Witness ==
    /\ \A c \in Callers : ValidAnswered(c)
    /\ intakes["a"].request # intakes["b"].request
    /\ intakes["b"].overlap
    /\ writer = "a"
    /\ http.op = "GET"
    /\ http.response.body.selfieDataUri = intakes["a"].request.value.selfieDataUri

-----------------------------------------------------------------------------
(* The endpoints and the orchestrator side by side *)

SampleFormDatas ==
    {[selfie |-> File("image/png", <<137, 80, 78>>, TRUE),
      cctvDataUri |-> Str("data:image/webp;base64,CCC="),
      programmaticSelfieDataUri |-> IF actionsVariant = "programmatic" THEN Str("") ELSE Null],
     [selfie |-> Null,
      cctvDataUri |-> Str("data:,"),
      programmaticSelfieDataUri |-> IF actionsVariant = "programmatic"
                                    THEN Str("data:image/png;base64,AAA=") ELSE Null]}

SampleAiOutcomes ==
    {[prompt |-> Return(ModelOutput(JudgmentSentinel)),
      generate |-> Return(ModelMedia("data:image/png;base64,EEE="))],
     [prompt |-> Return(ModelOutput("No matching person found in both images.")),
      generate |-> Return(ModelMedia("data:image/png;base64,EEE="))],
     [prompt |-> Throw(Error("fetch failed")),
      generate |-> Throw(Error("503 Service Unavailable"))]}

SubmitSample == SubmitFormOver(SampleFormDatas, SampleAiOutcomes)

NextServer == NextIntake \/ SubmitSample

SpecServer == Init /\ [][NextServer]_vars

\* the last exchange is an intake POST whose body parsed and passes validation
ValidIntake(h) ==
    /\ ParsedIntake(h)
    /\ h.request.value.t = "obj"
    /\ h.request.value.selfieDataUri \in {Str(p) : p \in Payloads}

-----------------------------------------------------------------------------
(* Combined intake-and-verification endpoint: two versions of POST that take  *)
(* selfieDataUri and cctvDataUri and call the model themselves                *)

\* z.object({ selfieDataUri, cctvDataUri }).safeParse(body), with flatten()
ReceivePhotoInputSchema_verify(body, selfieMessage, cctvMessage) ==
    IF body.t # "obj" THEN
        [success |-> FALSE,
         fieldErrors |-> FieldErrors(<<>>, <<>>),
         formErrors |-> <<"Expected object, received " \o ZodTypeName(body)>>]
    ELSE
        LET selfieIssues == ZodImageString(body.selfieDataUri, selfieMessage)
            cctvIssues == ZodImageString(body.cctvDataUri, cctvMessage)
        IN  IF selfieIssues # <<>> \/ cctvIssues # <<>> THEN
                [success |-> FALSE,
                 fieldErrors |-> FieldErrors(selfieIssues, cctvIssues),
                 formErrors |-> <<>>]
            ELSE
                [success |-> TRUE,
                 data |-> [selfieDataUri |-> body.selfieDataUri.s,
                           cctvDataUri |-> body.cctvDataUri.s]]

SUCCESS_SUMMARY_verify == "Verified successful: The same person is present in both images."

SUCCESS_SUMMARY_api_lowercase == "verified successful: the same person is present in both images."

SUCCESS_SUMMARY_api == "Verified successful: The same person is present in both images."

\* error instanceof Error ? error.message : fallback
ErrorMessageOr(error, fallback) == IF error.isError THEN error.message ELSE fallback

\* POST(request) of the version with one try block around everything
POST_verify(request, ai) ==
    IF ~request.ok THEN
        NextResponseJson(
            [status |-> "error",
             message |-> "Backend Error: "
                 \o ErrorMessageOr(request.error, "An unknown error occurred.")],
            500, corsHeaders)
    ELSE
    LET validatedFields == ReceivePhotoInputSchema_verify(request.value,
                               "Selfie image must be a valid data URI.",
                               "CCTV image must be a valid data URI.")
    IN
    IF ~validatedFields.success THEN
        NextResponseJson(
            [status |-> "error", message |-> "Invalid input",
             errors |-> validatedFields.fieldErrors],
            400, corsHeaders)
    ELSE
    LET selfieDataUri == validatedFields.data.selfieDataUri
        cctvDataUri == validatedFields.data.cctvDataUri
        alertSummaryOutput ==
            generateAlertSummary([selfieDataUri |-> selfieDataUri,
                                  cctvDataUri |-> cctvDataUri], ai.prompt)
    IN
    IF alertSummaryOutput.t = "throw" THEN
        NextResponseJson(
            [status |-> "error",
             message |-> "Backend Error: "
                 \o ErrorMessageOr(alertSummaryOutput.error, "An unknown error occurred.")],
            500, corsHeaders)
    ELSE IF alertSummaryOutput.value.summary = SUCCESS_SUMMARY_verify THEN
        NextResponseJson(
            [status |-> "verified", message |-> "Identity verified successfully."],
            200, corsHeaders)
    ELSE
    LET enhanceCctvImageOutput ==
            enhanceCctvImage([cctvImageDataUri |-> cctvDataUri], ai.generate)
    IN
    IF enhanceCctvImageOutput.t = "throw" THEN
        NextResponseJson(
            [status |-> "error",
             message |-> "Backend Error: "
                 \o ErrorMessageOr(enhanceCctvImageOutput.error, "An unknown error occurred.")],
            500, corsHeaders)
    ELSE
        NextResponseJson(
            [status |-> "failed",
             summary |-> alertSummaryOutput.value.summary,
             enhancedImageUri |-> enhanceCctvImageOutput.value.enhancedCctvImageDataUri,
             message |-> "Identity verification did not confirm a match."],
            200, corsHeaders)

\* POST(request) of the version with separate try blocks for the JSON body and
\* for the model calls
POST_verify_api(request, ai) ==
    IF ~request.ok THEN
        NextResponseJson(
            [status |-> "error",
             message |-> "Invalid JSON payload. Please ensure the request body is a valid JSON object."],
            400, corsHeaders)
    ELSE
    LET validatedFields == ReceivePhotoInputSchema_verify(request.value,
                               "Selfie image data must be a valid data URI.",
                               "CCTV image data must be a valid data URI.")
    IN
    IF ~validatedFields.success THEN
        NextResponseJson(
            [status |-> "error",
             message |-> InvalidInputMessage(validatedFields.fieldErrors)],
            400, corsHeaders)
    ELSE
    LET selfieDataUri == validatedFields.data.selfieDataUri
        cctvDataUri == validatedFields.data.cctvDataUri
        alertSummaryOutput ==
            generateAlertSummary([selfieDataUri |-> selfieDataUri,
                                  cctvDataUri |-> cctvDataUri], ai.prompt)
    IN
    IF alertSummaryOutput.t = "throw" THEN
        NextResponseJson(
            [status |-> "error",
             message |-> "Failed to get AI insights via API: "
                 \o ErrorMessageOr(alertSummaryOutput.error,
                                   "An unknown error occurred during AI processing.")],
            500, corsHeaders)
    ELSE IF alertSummaryOutput.value.summary = SUCCESS_SUMMARY_api THEN
        NextResponseJson(
            [status |-> "verified", message |-> "Identity verified successfully via API."],
            200, corsHeaders)
    ELSE
    LET enhanceCctvImageOutput ==
            enhanceCctvImage([cctvImageDataUri |-> cctvDataUri], ai.generate)
    IN
    IF enhanceCctvImageOutput.t = "throw" THEN
        NextResponseJson(
            [status |-> "error",
             message |-> "Failed to get AI insights via API: "
                 \o ErrorMessageOr(enhanceCctvImageOutput.error,
                                   "An unknown error occurred during AI processing.")],
            500, corsHeaders)
    ELSE
        NextResponseJson(
            [status |-> "failed",
             summary |-> alertSummaryOutput.value.summary,
             enhancedImageUri |-> enhanceCctvImageOutput.value.enhancedCctvImageDataUri,
             message |-> "Identity verification did not confirm a match via API."],
            200, corsHeaders)

VerifyFields(valid) == {Undefined, Str("not-a-data-uri"), Str(valid)}

VerifyRequests ==
    {JsonOk(Obj(f, g)) : f \in VerifyFields("data:image/png;base64,AAA="),
                         g \in VerifyFields("data:image/png;base64,BBB=")}
    \cup {JsonOk(Null), JsonThrows("Unexpected end of JSON input")}

VerifyPhoto ==
    /\ \E request \in VerifyRequests, ai \in AiOutcomes :
           http' = [op |-> "POST_verify", version |-> "single-try",
                    request |-> request, ai |-> ai,
                    response |-> POST_verify(request, ai)]
    /\ UNCHANGED <<lastReceivedSelfieForPage, accepted, polls, rejects,
                   pollVariant, actionsVariant, run, intakes, writer, clientVars>>

VerifyPhotoViaApi ==
    /\ \E request \in VerifyRequests, ai \in AiOutcomes :
           http' = [op |-> "POST_verify", version |-> "via-api",
                    request |-> request, ai |-> ai,
                    response |-> POST_verify_api(request, ai)]
    /\ UNCHANGED <<lastReceivedSelfieForPage, accepted, polls, rejects,
                   pollVariant, actionsVariant, run, intakes, writer, clientVars>>

NextVerify == VerifyPhoto \/ VerifyPhotoViaApi

SpecVerify == Init /\ [][NextVerify]_vars

\* the last exchange is a combined request with two valid image data URIs for
\* which the match operation returned the Judgment Sentinel
VerifiedExchange ==
    /\ http.op = "POST_verify"
    /\ http.request.ok
    /\ http.request.value = Obj(Str("data:image/png;base64,AAA="),
                                Str("data:image/png;base64,BBB="))
    /\ http.ai.prompt = Return(ModelOutput(JudgmentSentinel))

\* C17 as stated: such a request is answered 200 with body exactly
\* {status: 'verified', message: 'Identity verified successfully.'}.
C17_VerifiedBodyExact ==
    VerifiedExchange =>
        /\ http.response.status = 200
        /\ http.response.body =
               [status |-> "verified", message |-> "Identity verified successfully."]

\* C17 amended: such a request is answered 200 with a body of exactly the
\* fields status = 'verified' and message, the message being 'Identity verified
\* successfully.' in the single-try version and 'Identity verified
\* successfully via API.' in the other.
C17_VerifiedBodyPerVersion ==
    VerifiedExchange =>
        /\ http.response.status = 200
        /\ DOMAIN http.response.body = {"status", "message"}
        /\ http.response.body.status = "verified"
        /\ http.response.body.message =
               IF http.version = "single-try"
               THEN "Identity verified successfully."
               ELSE "Identity verified successfully via API."

C17_Witness ==
    /\ VerifiedExchange
    /\ http.version = "via-api"
    /\ http.response.status = 200
    /\ http.response.body.status = "verified"

-----------------------------------------------------------------------------
(* The client page (HomePage): camera, polling, upload, submission.  The    *)
(* page is deployed with the processVerification that reads the hidden      *)
(* field programmaticSelfieDataUri, the field this page writes.             *)

RemoveAt(seq, i) == SubSeq(seq, 1, i - 1) \o SubSeq(seq, i + 1, Len(seq))

\* the file the user can choose in the file input
UserFiles == {File("image/png", <<137, 80, 78>>, TRUE)}

\* response.ok
ResponseOk(response) == response.status >= 200 /\ response.status <= 299

\* the ways a poll can fail before the handler answers
FetchFailures ==
    {Return([status |-> 502, body |-> Null]), Throw(Error("Failed to fetch"))}

\* what getContext('2d') and toDataURL can do when a frame is captured
CaptureOutcomes == {"captured", "noContext", "toDataURLThrows"}

\* what the model does during a submission of the page
PageAiOutcomes ==
    {[prompt |-> Return(ModelOutput("No matching person found in both images.")),
      generate |-> Return(ModelMedia("data:image/png;base64,EEE="))]}

\* useActionState: the state is the result of the last completed action
verificationState ==
    IF run.state = "done" THEN run.result ELSE [status |-> "error", message |-> ""]

\* formAction(formData): the server action runs and its result becomes
\* verificationState; the effect on verificationState then restores the
\* preview when the selfie used is the last-processed remote selfie
FormAction(formData, ai, nextPage) ==
    LET r == processVerification_programmatic(formData, ai)
        selfieUsed == IF "selfieUsed" \in DOMAIN r.result
                      THEN Str(r.result.selfieUsed) ELSE Undefined
    IN  /\ run' = [state |-> "done", formData |-> formData, ai |-> ai,
                   result |-> r.result, calls |-> r.calls]
        /\ page' = IF Truthy(selfieUsed)
                      /\ selfieUsed = nextPage.lastProcessedRemoteSelfieUri
                   THEN [nextPage EXCEPT !.selfiePreview = selfieUsed]
                   ELSE nextPage

\* the effect that asks for the camera once the page is mounted
getCameraPermission ==
    /\ page.hasCameraPermission = Null
    /\ \E outcome \in {"unsupported", "granted", "denied"} :
           page' = IF outcome = "granted"
                   THEN [page EXCEPT !.hasCameraPermission = Bool(TRUE),
                                     !.srcObject = TRUE]
                   ELSE [page EXCEPT !.hasCameraPermission = Bool(FALSE)]
    /\ UNCHANGED <<lastReceivedSelfieForPage, pollVariant, http, accepted, polls,
                   rejects, actionsVariant, run, intakes, writer, fetches, timers,
                   autoSubmissions>>

\* the video element has decoded enough of the stream to show a frame
VideoCanPlay ==
    /\ page.srcObject
    /\ ~page.videoReady
    /\ page' = [page EXCEPT !.videoReady = TRUE]
    /\ UNCHANGED <<lastReceivedSelfieForPage, pollVariant, http, accepted, polls,
                   rejects, actionsVariant, run, intakes, writer, fetches, timers,
                   autoSubmissions>>

\* the camera delivers another frame
VideoFrame ==
    /\ page.videoReady
    /\ \E frame \in Frames \ {page.videoFrame} :
           page' = [page EXCEPT !.videoFrame = frame]
    /\ UNCHANGED <<lastReceivedSelfieForPage, pollVariant, http, accepted, polls,
                   rejects, actionsVariant, run, intakes, writer, fetches, timers,
                   autoSubmissions>>

togglePolling ==
    /\ page' = [page EXCEPT !.isPollingSelfie = ~page.isPollingSelfie]
    /\ UNCHANGED <<lastReceivedSelfieForPage, pollVariant, http, accepted, polls,
                   rejects, actionsVariant, run, intakes, writer, fetches, timers,
                   autoSubmissions>>

\* responses arrive in any order, so the pending polls are kept in an order
\* that depends on their content only: by the selfie they carry, then by the
\* closure's value
ValueRank(v) == IF v.t = "str" THEN 1 + Len(v.s) ELSE 0

FetchRank(fetch) ==
    IF fetch.response.t = "throw" THEN 0
    ELSE IF ~ResponseOk(fetch.response.value) THEN 1
    ELSE 2 + 100 * ValueRank(fetch.response.value.body.selfieDataUri)
           + 10000 * ValueRank(fetch.lastProcessedRemoteSelfieUri)

Pending(pending, fetch) ==
    LET before == Cardinality({i \in 1..Len(pending) :
                                   FetchRank(pending[i]) <= FetchRank(fetch)})
    IN  SubSeq(pending, 1, before) \o <<fetch>>
            \o SubSeq(pending, before + 1, Len(pending))

\* fetchLatestSelfie up to its first await: the polling effect is active (its
\* initial call or an interval tick), the request reaches the deployed GET
\* handler or fails; the closure keeps the lastProcessedRemoteSelfieUri of
\* the render that created it, which only the path of an ok response reads
FetchLatestSelfie ==
    /\ page.isPollingSelfie
    /\ Len(fetches) < MaxInFlight
    /\ \/ \E failure \in FetchFailures :
              /\ fetches' = Pending(fetches, [response |-> failure])
              /\ UNCHANGED lastReceivedSelfieForPage
       \/ LET r == IF pollVariant = "peek" THEN GET(lastReceivedSelfieForPage)
                   ELSE GET_consuming(lastReceivedSelfieForPage)
          IN  /\ fetches' = Pending(fetches,
                     [lastProcessedRemoteSelfieUri |-> page.lastProcessedRemoteSelfieUri,
                      response |-> Return([status |-> r.response.status,
                                           body |-> r.response.body])])
              /\ lastReceivedSelfieForPage' = r.slot
    /\ UNCHANGED <<pollVariant, http, accepted, polls, rejects, actionsVariant,
                   run, intakes, writer, page, timers, autoSubmissions>>

\* the new selfie a poll response makes the page adopt, or Null: the body's
\* selfieDataUri when it is truthy and differs from the closure's value
NewRemoteSelfie(fetch) ==
    IF fetch.response.t = "throw" THEN Null
    ELSE IF ~ResponseOk(fetch.response.value) THEN Null
    ELSE LET data == fetch.response.value.body
         IN  IF Truthy(data.selfieDataUri)
                /\ data.selfieDataUri # fetch.lastProcessedRemoteSelfieUri
             THEN data.selfieDataUri
             ELSE Null

\* the poll failed: fetch threw, or the response is not ok
FetchFailed(fetch) ==
    fetch.response.t = "throw" \/ ~ResponseOk(fetch.response.value)

\* a failure path that gives up polling
PollFailed_stopsPolling(p) == [p EXCEPT !.isPollingSelfie = FALSE]

\* the two failure paths of fetchLatestSelfie, the return after !response.ok
\* and the catch block: they log to the console and set nothing
PollFailed(p) == p

\* fetchLatestSelfie after its awaits: the response of some poll arrives
FetchLatestSelfieResumes ==
    \E i \in 1..Len(fetches) :
        LET fetch == fetches[i]
            selfieDataUri == NewRemoteSelfie(fetch)
        IN  /\ fetches' = RemoveAt(fetches, i)
            /\ IF FetchFailed(fetch) THEN
                   /\ page' = PollFailed(page)
                   /\ UNCHANGED timers
               ELSE IF selfieDataUri # Null THEN
                   /\ Len(timers) < MaxTimers
                   /\ page' = [page EXCEPT
                          !.selfiePreview = selfieDataUri,
                          !.lastProcessedRemoteSelfieUri = selfieDataUri,
                          !.selfieInput = EmptyFile,
                          !.programmaticSelfieDataUri = selfieDataUri.s,
                          !.uploaded = Null]
                   /\ timers' = Append(timers, [selfieDataUri |-> selfieDataUri])
               ELSE UNCHANGED <<page, timers>>
            /\ UNCHANGED <<lastReceivedSelfieForPage, pollVariant, http, accepted,
                           polls, rejects, actionsVariant, run, intakes, writer,
                           autoSubmissions>>

StreamActive_unchecked(p) == TRUE

\* the checks the timer callback makes on the video element before it
\* captures: it has a srcObject (set only when the camera was granted) and
\* it has enough data with a non-zero size
StreamActive(p) == p.srcObject /\ p.videoReady

\* the setTimeout callback scheduled when a remote selfie was adopted: it
\* captures a frame and submits the form as it is when the callback runs,
\* without the file entry; counted says whether the history counter is kept
AutoSubmitOver(counted) ==
    /\ timers # <<>>
    /\ timers' = Tail(timers)
    /\ \E outcome \in CaptureOutcomes, ai \in PageAiOutcomes :
               IF StreamActive(page) /\ outcome = "captured" THEN
                   LET captured == [page EXCEPT !.cctvDataUri = page.videoFrame]
                       formData ==
                           [selfie |-> Null,
                            cctvDataUri |-> Str(captured.cctvDataUri),
                            programmaticSelfieDataUri |->
                                Str(captured.programmaticSelfieDataUri)]
                   IN  /\ FormAction(formData, ai, captured)
                       /\ autoSubmissions' =
                              IF counted
                                 /\ formData.programmaticSelfieDataUri
                                        = lastReceivedSelfieForPage
                                 /\ autoSubmissions < 2
                              THEN autoSubmissions + 1 ELSE autoSubmissions
               ELSE
                   UNCHANGED <<page, run, autoSubmissions>>
    /\ UNCHANGED <<lastReceivedSelfieForPage, pollVariant, http, accepted, polls,
                   rejects, actionsVariant, intakes, writer, fetches>>

AutoSubmit == AutoSubmitOver(FALSE)

AutoSubmitCounted == AutoSubmitOver(TRUE)

\* the change event of the file input: the user picks a file (a FileReader
\* starts reading it), or empties a selection that held a file
handleSelfieChange ==
    /\ \/ \E file \in UserFiles :
              /\ page.reader = Null
              /\ page' = [page EXCEPT !.selfieInput = file, !.reader = file,
                                      !.uploaded = Null]
       \/ /\ page.selfieInput # EmptyFile
          /\ page' = [page EXCEPT !.selfieInput = EmptyFile, !.selfiePreview = Null,
                                  !.uploaded = Null]
    /\ UNCHANGED <<lastReceivedSelfieForPage, pollVariant, http, accepted, polls,
                   rejects, actionsVariant, run, intakes, writer, fetches, timers,
                   autoSubmissions>>

\* reader.onloadend: the file chosen earlier has been read
onloadend ==
    /\ page.reader # Null
    /\ page' = [page EXCEPT !.selfiePreview = Str(FileDataUri(page.reader)),
                            !.lastProcessedRemoteSelfieUri = Null,
                            !.programmaticSelfieDataUri = "",
                            !.reader = Null,
                            !.uploaded = page.reader]
    /\ UNCHANGED <<lastReceivedSelfieForPage, pollVariant, http, accepted, polls,
                   rejects, actionsVariant, run, intakes, writer, fetches, timers,
                   autoSubmissions>>

\* the user presses the submit button, which is enabled while there is a
\* preview and the camera permission is true; handleFormSubmit captures a
\* frame or prevents the submission, then the form action runs
handleFormSubmit ==
    /\ Truthy(page.selfiePreview)
    /\ page.hasCameraPermission = Bool(TRUE)
    /\ \E outcome \in CaptureOutcomes, ai \in PageAiOutcomes :
           IF page.videoReady /\ outcome = "captured" THEN
               LET captured == [page EXCEPT !.cctvDataUri = page.videoFrame]
                   formData ==
                       [selfie |-> captured.selfieInput,
                        cctvDataUri |-> Str(captured.cctvDataUri),
                        programmaticSelfieDataUri |->
                            Str(captured.programmaticSelfieDataUri)]
               IN  FormAction(formData, ai, captured)
           ELSE
               UNCHANGED <<page, run>>
    /\ UNCHANGED <<lastReceivedSelfieForPage, pollVariant, http, accepted, polls,
                   rejects, actionsVariant, intakes, writer, fetches, timers,
                   autoSubmissions>>

\* a remote device posts a photo to the intake endpoint
RemoteIntake ==
    ReceivePhotoOver({JsonOk(Obj(Str(p), Undefined)) : p \in Payloads})

\* every step of the page and of the remote device but the timer callback
PageSteps ==
    \/ getCameraPermission
    \/ VideoCanPlay
    \/ VideoFrame
    \/ togglePolling
    \/ FetchLatestSelfie
    \/ FetchLatestSelfieResumes
    \/ handleSelfieChange
    \/ onloadend
    \/ handleFormSubmit
    \/ RemoteIntake

NextClient == PageSteps \/ AutoSubmit

\* the same steps, with the automatic submissions counted
NextClientCounted == PageSteps \/ AutoSubmitCounted

\* the page is served next to the peek handler and the processVerification
\* that reads programmaticSelfieDataUri
InitClient ==
    /\ Init
    /\ pollVariant = "peek"
    /\ actionsVariant = "programmatic"

SpecClient == InitClient /\ [][NextClient]_vars

SpecClientCounted == InitClient /\ [][NextClientCounted]_vars

-----------------------------------------------------------------------------
(* Properties of the client page *)

\* the selfie a poll response carries: the body's selfieDataUri of a response
\* that arrived and is ok, else Null
Carried(fetch) ==
    IF fetch.response.t = "return" /\ ResponseOk(fetch.response.value)
    THEN fetch.response.value.body.selfieDataUri
    ELSE Null

\* C18 as stated: when the response of a poll carries a non-null selfie that
\* differs from the page's last-processed value, the page sets the preview and
\* the last-processed value to it and schedules a submission; when the selfie
\* is null or equal to the last-processed value, the page changes no state and
\* schedules nothing; and a scheduled submission that reaches the orchestrator
\* hands it that selfie and the frame the camera shows at that moment.
C18_PollAdoptsAndSubmits ==
    [][/\ \A i \in 1..Len(fetches) :
              fetches' = RemoveAt(fetches, i) =>
                  LET selfie == Carried(fetches[i])
                  IN  IF selfie # Null /\ selfie # page.lastProcessedRemoteSelfieUri
                      THEN /\ page'.selfiePreview = selfie
                           /\ page'.lastProcessedRemoteSelfieUri = selfie
                           /\ timers' = Append(timers, [selfieDataUri |-> selfie])
                      ELSE /\ page' = page
                           /\ timers' = timers
       /\ (timers # <<>> /\ timers' = Tail(timers) /\ run' # run) =>
              /\ run'.formData.programmaticSelfieDataUri = Head(timers).selfieDataUri
              /\ run'.formData.cctvDataUri = Str(page.videoFrame)
      ]_vars

\* C19 as stated: when the file the user chose has been read, the
\* last-processed value is null and the programmatic field is empty; and a
\* manual submission made while that upload is the page's selfie hands the
\* orchestrator the uploaded file, an empty programmatic field and the frame
\* the camera shows at that moment.
C19_UploadThenManualSubmit ==
    [][/\ (page.reader # Null /\ page'.reader = Null) =>
              /\ page'.lastProcessedRemoteSelfieUri = Null
              /\ page'.programmaticSelfieDataUri = ""
       /\ (page.uploaded # Null /\ run' # run /\ run'.formData.selfie # Null) =>
              /\ run'.formData.selfie = page.uploaded
              /\ run'.formData.programmaticSelfieDataUri = Str("")
              /\ run'.formData.cctvDataUri = Str(page.videoFrame)
      ]_vars

\* C21: the camera permission changes only from null, and then to true or to
\* false, so it is settled once and keeps its value; and while it is false no
\* step of the page, neither the submit button nor a fired timer, runs
\* processVerification.
C21_PermissionSettlesAndDeniedBlocks ==
    [][/\ page'.hasCameraPermission # page.hasCameraPermission =>
              /\ page.hasCameraPermission = Null
              /\ page'.hasCameraPermission \in {Bool(TRUE), Bool(FALSE)}
       /\ page.hasCameraPermission = Bool(FALSE) => run' = run
      ]_vars

\* the camera was denied, a remote selfie was adopted and its timer has fired,
\* and nothing was submitted
C21_Witness ==
    /\ page.hasCameraPermission = Bool(FALSE)
    /\ page.lastProcessedRemoteSelfieUri # Null
    /\ Truthy(page.selfiePreview)
    /\ timers = <<>>
    /\ fetches = <<>>
    /\ run = NoRun

\* C22 as stated: while polling is toggled off, no step starts a poll request
\* and no fired timer submits to processVerification.
C22_PollingOffIsQuiet ==
    [][~page.isPollingSelfie =>
           /\ Len(fetches') <= Len(fetches)
           /\ ~(timers # <<>> /\ timers' = Tail(timers) /\ run' # run)
      ]_vars

-----------------------------------------------------------------------------
(* Properties of the summary flow as seen through the orchestrator *)

\* the model answered with an output that has a non-empty summary
HasSummary(promptOutcome) ==
    /\ promptOutcome.t = "return"
    /\ Truthy(promptOutcome.value)
    /\ "summary" \in DOMAIN promptOutcome.value
    /\ promptOutcome.value.summary # ""

-----------------------------------------------------------------------------
(* The values the Pending Selfie Slot takes *)

\* C24: the slot is null or a string that begins with 'data:image/', and a
\* non-null selfie in the body of a poll response raises no issue in the
\* selfieDataUri field of processVerification's schema.
C24_SlotIsNullOrImageUri ==
    /\ \/ lastReceivedSelfieForPage = Null
       \/ /\ lastReceivedSelfieForPage.t = "str"
          /\ StartsWith(lastReceivedSelfieForPage.s, "data:image/")
    /\ (http.op = "GET" /\ http.response.body.selfieDataUri # Null) =>
           VerificationInputSchema(http.response.body.selfieDataUri,
                                   Str("data:image/webp;base64,F1==")).success

\* a poll answered with a stored selfie after an intake was refused
C24_Witness ==
    /\ http.op = "GET"
    /\ http.response.body.selfieDataUri = Str("data:image/jpeg;base64,BBB=")
    /\ lastReceivedSelfieForPage = Str("data:image/jpeg;base64,BBB=")

-----------------------------------------------------------------------------
(* The earlier versions of processVerification kept in the repository: the  *)
(* match is simulated by Math.random() and the model is asked only to       *)
(* describe a failed verification.                                          *)

\* the placeholder 1x1 PNG the first version passes as the CCTV image
TRANSPARENT_PNG_DATA_URI ==
    "data:image/png;base64,iVBORw0KGgoAAAANSUhEUgAAAAEAAAABCAQAAAC1HAwCAAAAC0lEQVR42mNkYAAAAAYAAjCB0C8AAAAASUVORK5CYII="

\* the result of the else branch when both model calls returned
FailedResult_simulated(summary, enhancedImageUri) ==
    [status |-> "failed",
     summary |-> summary,
     enhancedImageUri |-> enhancedImageUri,
     message |-> "Identity verification failed."]

\* `const isMatch = Math.random() < 0.3` and the branches on it: 'verified'
\* without any external call, else generateAlertSummary, enhanceCctvImage and
\* a 'failed' result, or 'error' when one of them throws
SimulatedStage(validSelfieDataUri, validCctvDataUri, ai, isMatch) ==
    IF isMatch THEN
        Outcome([status |-> "verified", message |-> "Identity verified successfully."],
                <<>>)
    ELSE
    LET alertSummaryInput == [selfieDataUri |-> validSelfieDataUri,
                              cctvDataUri |-> validCctvDataUri]
        alertSummaryOutput == generateAlertSummary(alertSummaryInput, ai.prompt)
        summaryCall == Call("generateAlertSummary", alertSummaryInput, alertSummaryOutput)
    IN
    IF alertSummaryOutput.t = "throw" THEN
        Outcome(AiFailure(alertSummaryOutput.error), <<summaryCall>>)
    ELSE
    LET enhanceCctvImageInput == [cctvImageDataUri |-> validCctvDataUri]
        enhanceCctvImageOutput == enhanceCctvImage(enhanceCctvImageInput, ai.generate)
        enhanceCall == Call("enhanceCctvImage", enhanceCctvImageInput, enhanceCctvImageOutput)
    IN
    IF enhanceCctvImageOutput.t = "throw" THEN
        Outcome(AiFailure(enhanceCctvImageOutput.error), <<summaryCall, enhanceCall>>)
    ELSE
        Outcome(FailedResult_simulated(alertSummaryOutput.value.summary,
                    enhanceCctvImageOutput.value.enhancedCctvImageDataUri),
                <<summaryCall, enhanceCall>>)

\* processVerification of the version that ignores the form's cctvDataUri and
\* uses the placeholder; its validation message concatenates the fieldErrors
\* object to a string
processVerification_placeholder(formData, ai, isMatch) ==
    LET selfieFile == formData.selfie
    IN
    IF ~Truthy(selfieFile) THEN
        Outcome([status |-> "error", message |-> "Selfie image is required."], <<>>)
    ELSE IF ArrayBufferThrows(selfieFile) THEN
        Outcome([status |-> "error", message |-> "Failed to process selfie image."], <<>>)
    ELSE
    LET selfieDataUri == FileDataUri(selfieFile)
        cctvDataUriForAI == TRANSPARENT_PNG_DATA_URI
        validatedFields == VerificationInputSchema(Str(selfieDataUri),
                                                   Str(cctvDataUriForAI))
    IN
    IF ~validatedFields.success THEN
        Outcome([status |-> "error", message |-> "Invalid input: [object Object]"],
                <<>>)
    ELSE
        SimulatedStage(validatedFields.data.selfieDataUri,
                       validatedFields.data.cctvDataUri, ai, isMatch)

\* processVerification of the version that reads the captured frame from the
\* form and still simulates the match
processVerification_simulated(formData, ai, isMatch) ==
    LET selfieFile == formData.selfie
        cctvDataUriFromForm == formData.cctvDataUri
    IN
    IF ~Truthy(selfieFile) THEN
        Outcome([status |-> "error", message |-> "Selfie image is required."], <<>>)
    ELSE IF ~Truthy(cctvDataUriFromForm) THEN
        Outcome([status |-> "error",
                 message |-> "CCTV frame is required. Please ensure camera is working."],
                <<>>)
    ELSE IF ArrayBufferThrows(selfieFile) THEN
        Outcome([status |-> "error", message |-> "Failed to process selfie image."], <<>>)
    ELSE
    LET selfieDataUri == FileDataUri(selfieFile)
        validatedFields == VerificationInputSchema(Str(selfieDataUri), cctvDataUriFromForm)
    IN
    IF ~validatedFields.success THEN
        Outcome([status |-> "error",
                 message |-> InvalidInputMessage(validatedFields.fieldErrors)], <<>>)
    ELSE
        SimulatedStage(validatedFields.data.selfieDataUri,
                       validatedFields.data.cctvDataUri, ai, isMatch)

\* what the model does in the runs that compare the versions
VersionAiOutcomes ==
    [prompt : {Throw(Error("fetch failed")), Return(ModelOutput("")),
               Return(ModelOutput(JudgmentSentinel)),
               Return(ModelOutput("No matching person found in both images."))},
     generate : {Throw(Error("503 Service Unavailable")),
                 Return(ModelMedia("data:image/png;base64,EEE="))}]

\* the form action of an earlier version runs; isMatch is what the comparison
\* of Math.random() with 0.3 gives in that run
SubmitFormEarlier ==
    \E version \in {"placeholder", "simulated"}, formData \in FormDatas("actions"),
       ai \in VersionAiOutcomes, isMatch \in BOOLEAN :
        LET r == IF version = "placeholder"
                 THEN processVerification_placeholder(formData, ai, isMatch)
                 ELSE processVerification_simulated(formData, ai, isMatch)
        IN  /\ run' = [state |-> "done", version |-> version, formData |-> formData,
                       ai |-> ai, isMatch |-> isMatch,
                       result |-> r.result, calls |-> r.calls]
            /\ UNCHANGED <<lastReceivedSelfieForPage, pollVariant, http, accepted,
                           polls, rejects, actionsVariant, intakes, writer, clientVars>>

\* the form action of one of the two versions that ask the model for the
\* judgment
SubmitFormLater == SubmitFormOver(FormDatas(actionsVariant), VersionAiOutcomes)

\* every processVerification of the repository
NextVersions == SubmitFormLater \/ SubmitFormEarlier

SpecVersions == Init /\ [][NextVersions]_vars

\* C25 as stated: in every version, a 'verified' result is returned only by a
\* run in which generateAlertSummary was invoked and returned exactly the
\* Judgment Sentinel.
C25_VerifiedOnlyBySentinel ==
    (RunDone /\ run.result.status = "verified") =>
        SummaryReturned(JudgmentSentinel)

-----------------------------------------------------------------------------
(* Properties of the hand-off from the slot to the page *)

\* C26 as stated: between two intakes that succeed, at most one timer
\* callback submits the stored selfie to processVerification.
C26_AtMostOneAutoSubmission == autoSubmissions <= 1

\* C27 as stated: a timer callback that submits hands processVerification a
\* form without file entry whose selfie is the one of the poll response that
\* scheduled the callback.
C27_TimerSubmitsItsSelfie ==
    [][(timers # <<>> /\ timers' = Tail(timers) /\ run' # run) =>
           /\ run'.formData.selfie = Null
           /\ run'.formData.programmaticSelfieDataUri = Head(timers).selfieDataUri
           /\ run'.result.selfieUsed = Head(timers).selfieDataUri.s
      ]_vars

\* C29 as stated: while an uploaded file is the page's selfie, the response of
\* a poll that carries the selfie still in the slot, which the page has
\* already adopted and submitted since that selfie's intake, changes neither
\* the preview nor the file input nor the programmatic field and schedules
\* nothing.
C29_UploadOutlivesProcessedSelfie ==
    [][\A i \in 1..Len(fetches) :
           (/\ fetches' = RemoveAt(fetches, i)
            /\ page.uploaded # Null
            /\ autoSubmissions >= 1
            /\ Carried(fetches[i]) = lastReceivedSelfieForPage) =>
               /\ page'.selfiePreview = page.selfiePreview
               /\ page'.selfieInput = page.selfieInput
               /\ page'.programmaticSelfieDataUri = page.programmaticSelfieDataUri
               /\ timers' = timers
      ]_vars

\* C30: the response of a poll that failed, by a thrown fetch or a status
\* that is not ok, leaves the whole page as it is (preview, last-processed
\* value, programmatic field, and the polling flag the interval depends on),
\* schedules no timer and submits nothing.
C30_FailedPollChangesNothing ==
    [][\A i \in 1..Len(fetches) :
           (fetches' = RemoveAt(fetches, i) /\ FetchFailed(fetches[i])) =>
               /\ page' = page
               /\ timers' = timers
               /\ run' = run
      ]_vars

\* a failed poll is about to be handled by a page that shows an adopted
\* selfie and is still polling
C30_Witness ==
    /\ \E i \in 1..Len(fetches) :
           /\ FetchFailed(fetches[i])
           /\ fetches[i].response.t = "throw"
    /\ page.isPollingSelfie
    /\ page.lastProcessedRemoteSelfieUri # Null
    /\ Truthy(page.selfiePreview)

-----------------------------------------------------------------------------
(* The hand-off left to itself: one intake, a user who only watches, polling *)
(* left on.  The runtime runs every callback that is due, the network       *)
(* answers a poll again and again, the stream becomes playable.             *)

\* the only intake of the session
FirstIntake ==
    /\ lastReceivedSelfieForPage = Null
    /\ RemoteIntake

\* a poll that is answered by the handler
FetchLatestSelfieAnswered ==
    /\ FetchLatestSelfie
    /\ \E i \in 1..Len(fetches') :
           /\ fetches = RemoveAt(fetches', i)
           /\ ~FetchFailed(fetches'[i])

NextHandOff ==
    \/ getCameraPermission
    \/ VideoCanPlay
    \/ VideoFrame
    \/ FetchLatestSelfie
    \/ FetchLatestSelfieResumes
    \/ AutoSubmitCounted
    \/ FirstIntake

SpecHandOff ==
    /\ InitClient
    /\ [][NextHandOff]_vars
    /\ WF_vars(getCameraPermission)
    /\ WF_vars(VideoCanPlay)
    /\ SF_vars(FetchLatestSelfieAnswered)
    /\ WF_vars(FetchLatestSelfieResumes)
    /\ WF_vars(AutoSubmitCounted)

\* C28 as stated: once polling is on, the camera is granted and the slot
\* holds a selfie that is not the page's last-processed value, a timer
\* callback eventually submits that selfie to processVerification.
C28_StoredSelfieIsEventuallySubmitted ==
    \A s \in Payloads :
        (/\ page.isPollingSelfie
         /\ page.hasCameraPermission = Bool(TRUE)
         /\ lastReceivedSelfieForPage = Str(s)
         /\ page.lastProcessedRemoteSelfieUri # Str(s))
            ~> (lastReceivedSelfieForPage = Str(s) /\ autoSubmissions >= 1)

====
